---- MODULE Spec2Model ----
(***************************************************************************)
(* Model of Task_5.py: validate_record (one delimited line checked against *)
(* the id / name / value rules, with the run's seen_ids set) and           *)
(* process_file (the fold of validate_record over the lines of a file,     *)
(* followed by the aggregates and the report).                             *)
(*                                                                         *)
(* A Python str is modelled as a sequence of one-character strings, so     *)
(* that strip, split, int() and float() are computed character by          *)
(* character.  The error messages of the source are Russian literals; they *)
(* are written here in English (the wording of the specification), one     *)
(* model string per source literal.                                        *)
(***************************************************************************)
EXTENDS Integers, Sequences, FiniteSets, TLC

VARIABLES
    pc,              \* position: "open", "scan", "done", "exit1" (process_file);
                     \*           "idle", "returned", "raised" (a direct call of validate_record)
    delimiter,       \* the delimiter argument
    line,            \* the line (record) last handed to validate_record
    total_records,   \* process_file: total_records
    valid_records,   \* process_file: valid_records (list of dicts)
    invalid_records, \* process_file: invalid_records (list of tuples)
    error_counts,    \* process_file: error_counts (defaultdict(int))
    seen_ids,        \* the seen_ids set shared with validate_record
    is_valid,        \* first component of validate_record's last return value
    errors,          \* second component of validate_record's last return value
    exit_status,     \* -1 while running, 0 normal end, 1 sys.exit(1)
    report           \* the summary block of the report, once written

vars == <<pc, delimiter, line, total_records, valid_records, invalid_records,
          error_counts, seen_ids, is_valid, errors, exit_status, report>>

\* Largest number of lines of the input file.
MaxLines == 3

-----------------------------------------------------------------------------
(* Characters and str methods *)

Digits == {"0", "1", "2", "5"}

\* The characters str.strip() removes (str.isspace), within the alphabet used.
Whitespace == {" ", "\t", "\n"}

DigitVal(c) == CASE c = "0" -> 0 [] c = "1" -> 1 [] c = "2" -> 2 [] c = "5" -> 5

RECURSIVE LStrip(_)
LStrip(s) == IF s # <<>> /\ Head(s) \in Whitespace THEN LStrip(Tail(s)) ELSE s

RECURSIVE RStrip(_)
RStrip(s) ==
    IF s # <<>> /\ s[Len(s)] \in Whitespace THEN RStrip(SubSeq(s, 1, Len(s) - 1)) ELSE s

\* str.strip(): whitespace is removed at both ends.
Strip(s) == RStrip(LStrip(s))

StartsWith(s, d) == Len(d) <= Len(s) /\ SubSeq(s, 1, Len(d)) = d

\* str.split(sep) for a non-empty sep: cur is the field being collected.
RECURSIVE SplitAcc(_, _, _)
SplitAcc(s, d, cur) ==
    IF s = <<>> THEN <<cur>>
    ELSE IF StartsWith(s, d)
         THEN <<cur>> \o SplitAcc(SubSeq(s, Len(d) + 1, Len(s)), d, <<>>)
         ELSE SplitAcc(Tail(s), d, Append(cur, Head(s)))

Split(s, d) == SplitAcc(s, d, <<>>)

\* str.split("") raises ValueError("empty separator").
SplitRaises(d) == d = <<>>

AllDigits(s) == \A i \in 1..Len(s) : s[i] \in Digits

RECURSIVE DigitsVal(_)
DigitsVal(s) ==
    IF s = <<>> THEN 0 ELSE 10 * DigitsVal(SubSeq(s, 1, Len(s) - 1)) + DigitVal(s[Len(s)])

RECURSIVE Pow10(_)
Pow10(n) == IF n = 0 THEN 1 ELSE 10 * Pow10(n - 1)

\* Sign and body of a numeric literal whose surrounding whitespace is removed.
IsNeg(t) == t # <<>> /\ Head(t) = "-"
Unsigned(t) == IF IsNeg(t) THEN Tail(t) ELSE t

\* int(s) does not raise ValueError: optional whitespace, optional sign, digits.
IsInt(s) == LET u == Unsigned(Strip(s)) IN u # <<>> /\ AllDigits(u)

\* int(s), for IsInt(s).
ParseInt(s) ==
    LET t == Strip(s)
        m == DigitsVal(Unsigned(t))
    IN IF IsNeg(t) THEN 0 - m ELSE m

\* Position of the first "." of u, 0 when there is none.
DotPos(u) ==
    IF \E i \in 1..Len(u) : u[i] = "."
    THEN CHOOSE i \in 1..Len(u) : u[i] = "." /\ \A j \in 1..(i - 1) : u[j] # "."
    ELSE 0

IntPart(u) == IF DotPos(u) = 0 THEN u ELSE SubSeq(u, 1, DotPos(u) - 1)
FracPart(u) == IF DotPos(u) = 0 THEN <<>> ELSE SubSeq(u, DotPos(u) + 1, Len(u))

\* A decimal literal of float(): digits, digits., .digits or digits.digits
IsDecimal(u) ==
    /\ AllDigits(IntPart(u))
    /\ AllDigits(FracPart(u))
    /\ Len(IntPart(u)) + Len(FracPart(u)) >= 1

NanToken == <<"n", "a", "n">>
InfToken == <<"i", "n", "f">>

\* float(s) does not raise ValueError.
IsFloat(s) ==
    LET u == Unsigned(Strip(s)) IN u = NanToken \/ u = InfToken \/ IsDecimal(u)

\* float(s), for IsFloat(s): a not-a-number, an infinity or the finite num/den,
\* each with its sign bit.
ParseFloat(s) ==
    LET t == Strip(s)
        u == Unsigned(t)
    IN IF u = NanToken THEN [kind |-> "nan", neg |-> IsNeg(t), num |-> 0, den |-> 1]
       ELSE IF u = InfToken THEN [kind |-> "inf", neg |-> IsNeg(t), num |-> 0, den |-> 1]
       ELSE [kind |-> "fin", neg |-> IsNeg(t),
             num |-> DigitsVal(IntPart(u) \o FracPart(u)),
             den |-> Pow10(Len(FracPart(u)))]

\* value < 0 on floats: false for nan and for -0.0.
FloatLtZero(v) == v.neg /\ (v.kind = "inf" \/ (v.kind = "fin" /\ v.num > 0))

-----------------------------------------------------------------------------
(* validate_record *)

\* The message literals of the source, in source order.
FieldCountError(n) == "Expected 3 fields, got " \o ToString(n)
EmptyIdText == "empty identifier"
DuplicateIdText == "duplicate identifier"
BadIdText == "invalid identifier format"
EmptyNameText == "empty name"
EmptyValueText == "empty value"
NegativeValueText == "negative value"
BadValueText == "invalid numeric value"
InternalIdError == "Internal error: could not convert ID"
InternalProcessingError == "Internal processing error"

\* The structural check: the split line does not have exactly 3 parts.
WrongFieldCountTooFew(parts) == Len(parts) < 3
WrongFieldCount(parts) == Len(parts) # 3

\* id_errors: blank, else int() fails, else the integer is in seen_ids.
IdErrorsNoDuplicateCheck(id_str, seen) ==
    IF Strip(id_str) = <<>> THEN <<EmptyIdText>>
    ELSE IF IsInt(id_str) THEN <<>>
    ELSE <<BadIdText>>
IdErrors(id_str, seen) ==
    IF Strip(id_str) = <<>> THEN <<EmptyIdText>>
    ELSE IF IsInt(id_str)
         THEN IF ParseInt(id_str) \in seen THEN <<DuplicateIdText>> ELSE <<>>
         ELSE <<BadIdText>>

\* name_errors: blank after strip.
NameErrors(name) == IF Strip(name) = <<>> THEN <<EmptyNameText>> ELSE <<>>

\* value_errors: blank, else float() fails, else value < 0.
ValueErrors(value_str) ==
    IF Strip(value_str) = <<>> THEN <<EmptyValueText>>
    ELSE IF IsFloat(value_str)
         THEN IF FloatLtZero(ParseFloat(value_str)) THEN <<NegativeValueText>> ELSE <<>>
         ELSE <<BadValueText>>

\* [f"{label}: {error}" for error in errs]
Labelled(label, errs) == [i \in 1..Len(errs) |-> label \o ": " \o errs[i]]

\* all_errors: the three lists, labelled, in the order id, name, value.
AllErrorsFirstFieldOnly(id_errors, name_errors, value_errors) ==
    IF id_errors # <<>> THEN Labelled("ID", id_errors)
    ELSE IF name_errors # <<>> THEN Labelled("Name", name_errors)
    ELSE Labelled("Value", value_errors)
AllErrors(id_errors, name_errors, value_errors) ==
    Labelled("ID", id_errors) \o Labelled("Name", name_errors)
        \o Labelled("Value", value_errors)

\* seen_ids.add(id_num)
AddSeenReplace(seen, id_num) == {id_num}
AddSeenSkip(seen, id_num) == seen
AddSeen(seen, id_num) == seen \cup {id_num}

\* validate_record(record, delimiter, seen_ids) for a delimiter split() accepts:
\* the returned pair and the seen_ids set it leaves behind.
ValidateRecordEagerAdd(record, delim, seen) ==
    LET parts == Split(Strip(record), delim)
    IN  IF WrongFieldCount(parts)
        THEN [is_valid |-> FALSE, errors |-> <<FieldCountError(Len(parts))>>,
              seen_ids |-> seen]
        ELSE LET id_str == parts[1]
                 all_errors == AllErrors(IdErrors(id_str, seen), NameErrors(parts[2]),
                                         ValueErrors(parts[3]))
                 added == IF IsInt(id_str) THEN AddSeen(seen, ParseInt(id_str)) ELSE seen
             IN  IF all_errors # <<>>
                 THEN [is_valid |-> FALSE, errors |-> all_errors, seen_ids |-> added]
                 ELSE [is_valid |-> TRUE, errors |-> <<>>, seen_ids |-> added]
ValidateRecord(record, delim, seen) ==
    LET parts == Split(Strip(record), delim)
    IN  IF WrongFieldCount(parts)
        THEN [is_valid |-> FALSE, errors |-> <<FieldCountError(Len(parts))>>,
              seen_ids |-> seen]
        ELSE LET id_str == parts[1]
                 name == parts[2]
                 value_str == parts[3]
                 all_errors == AllErrors(IdErrors(id_str, seen), NameErrors(name),
                                         ValueErrors(value_str))
             IN  IF all_errors # <<>>
                 THEN [is_valid |-> FALSE, errors |-> all_errors, seen_ids |-> seen]
                 ELSE IF IsInt(id_str)
                      THEN [is_valid |-> TRUE, errors |-> <<>>,
                            seen_ids |-> AddSeen(seen, ParseInt(id_str))]
                      ELSE [is_valid |-> FALSE, errors |-> <<InternalIdError>>,
                            seen_ids |-> seen]

-----------------------------------------------------------------------------
(* process_file *)

\* error_counts[error] += 1 on a defaultdict(int)
Tally(ec, error) ==
    IF error \in DOMAIN ec THEN [ec EXCEPT ![error] = @ + 1] ELSE ec @@ (error :> 1)

\* for error in errors: error_counts[error] += 1
RECURSIVE TallyAll(_, _)
TallyAll(ec, errs) ==
    IF errs = <<>> THEN ec ELSE TallyAll(Tally(ec, Head(errs)), Tail(errs))

\* sum(error_counts.values())
RECURSIVE SumCounts(_)
SumCounts(ec) ==
    IF DOMAIN ec = {} THEN 0
    ELSE LET e == CHOOSE x \in DOMAIN ec : TRUE
         IN  ec[e] + SumCounts([x \in DOMAIN ec \ {e} |-> ec[x]])

\* The secondary parse of an accepted line does not raise ValueError or IndexError.
SecondParseOk(parts) == Len(parts) >= 3 /\ IsInt(parts[1]) /\ IsFloat(parts[3])

\* The dict appended to valid_records for an accepted line.
ParsedRecord(record, delim) ==
    LET parts == Split(Strip(record), delim)
    IN  [id |-> ParseInt(parts[1]), name |-> parts[2], value |-> ParseFloat(parts[3]),
         original |-> Strip(record)]

\* invalid_records.append((line_num, line.strip(), errors))
RejectSkipBlank(invalid, line_num, record, errs) ==
    IF Strip(record) = <<>> THEN invalid
    ELSE Append(invalid, [line_num |-> line_num, record |-> Strip(record), errors |-> errs])
Reject(invalid, line_num, record, errs) ==
    Append(invalid, [line_num |-> line_num, record |-> Strip(record), errors |-> errs])

IdsOf(valid) == {valid[i].id : i \in 1..Len(valid)}
MinOf(S) == CHOOSE m \in S : \A x \in S : m <= x
MaxOf(S) == CHOOSE m \in S : \A x \in S : x <= m

\* The counts and the identifier aggregates the report prints.
Summary(total, valid, invalid, ec) ==
    [total |-> total,
     valid |-> Len(valid),
     invalid |-> Len(invalid),
     unique_ids |-> IF valid # <<>> THEN Cardinality(IdsOf(valid)) ELSE 0,
     total_errors |-> SumCounts(ec),
     min_id |-> IF valid # <<>> THEN MinOf(IdsOf(valid)) ELSE 0,
     max_id |-> IF valid # <<>> THEN MaxOf(IdsOf(valid)) ELSE 0]

NoReport == [total |-> -1]

\* Lines an input file is made of (with and without the final newline).
FileLines ==
    { <<"1", ",", "a", ",", "1", "\n">>,
      <<"1", " ", ",", "a", ",", "0", "\n">>,
      <<"2", ",", "a", ",", "n", "a", "n", "\n">>,
      <<"1", ",", "a", ",", "-", "1", "\n">>,
      <<",", "a", ",", "1", "\n">>,
      <<"a", ",", " ", ",", "a", "\n">>,
      <<"1", ",", "a", "\n">>,
      <<"\t", "a", "\t", "1", "\n">>,
      <<"2", "\t", "a", "\t", "1", ".", "5">>,
      <<"\n">> }

\* Delimiter arguments: the default, a whitespace delimiter, the empty string.
Delimiters == { <<",">>, <<"\t">>, <<>> }

Init ==
    /\ pc = "open"
    /\ delimiter \in Delimiters
    /\ line = <<>>
    /\ total_records = 0
    /\ valid_records = <<>>
    /\ invalid_records = <<>>
    /\ error_counts = [e \in {} |-> 0]
    /\ seen_ids = {}
    /\ is_valid = FALSE
    /\ errors = <<>>
    /\ exit_status = -1
    /\ report = NoReport

\* open(input_path): the file opens, or FileNotFoundError / another error ends
\* the process with status 1.
OpenFile ==
    /\ pc = "open"
    /\ \E opened \in BOOLEAN :
          IF opened
          THEN pc' = "scan" /\ exit_status' = exit_status
          ELSE pc' = "exit1" /\ exit_status' = 1
    /\ UNCHANGED <<delimiter, line, total_records, valid_records, invalid_records,
                   error_counts, seen_ids, is_valid, errors, report>>

\* One iteration of the loop over the lines of the file.
ProcessLine ==
    /\ pc = "scan"
    /\ total_records < MaxLines
    /\ \E l \in FileLines :
          /\ line' = l
          /\ total_records' = total_records + 1
          /\ IF SplitRaises(delimiter)
             THEN \* ValueError from split, caught by "except Exception": sys.exit(1)
                  /\ pc' = "exit1"
                  /\ exit_status' = 1
                  /\ UNCHANGED <<valid_records, invalid_records, error_counts,
                                 seen_ids, is_valid, errors>>
             ELSE LET r == ValidateRecord(l, delimiter, seen_ids)
                      line_num == total_records + 1
                  IN  /\ pc' = "scan"
                      /\ exit_status' = exit_status
                      /\ is_valid' = r.is_valid
                      /\ errors' = r.errors
                      /\ seen_ids' = r.seen_ids
                      /\ IF r.is_valid
                         THEN IF SecondParseOk(Split(Strip(l), delimiter))
                              THEN /\ valid_records' =
                                         Append(valid_records, ParsedRecord(l, delimiter))
                                   /\ UNCHANGED <<invalid_records, error_counts>>
                              ELSE /\ invalid_records' =
                                         Reject(invalid_records, line_num, l,
                                                <<InternalProcessingError>>)
                                   /\ error_counts' =
                                         Tally(error_counts, InternalProcessingError)
                                   /\ UNCHANGED valid_records
                         ELSE /\ invalid_records' =
                                    Reject(invalid_records, line_num, l, r.errors)
                              /\ error_counts' = TallyAll(error_counts, r.errors)
                              /\ UNCHANGED valid_records
    /\ UNCHANGED <<delimiter, report>>

\* End of file: the aggregates are computed and the report is written; a failure
\* to write it is printed and the function returns normally all the same.
WriteReport ==
    /\ pc = "scan"
    /\ pc' = "done"
    /\ exit_status' = 0
    /\ \E written \in BOOLEAN :
          report' = IF written
                    THEN Summary(total_records, valid_records, invalid_records,
                                 error_counts)
                    ELSE NoReport
    /\ UNCHANGED <<delimiter, line, total_records, valid_records, invalid_records,
                   error_counts, seen_ids, is_valid, errors>>

Next == OpenFile \/ ProcessLine \/ WriteReport

Spec == Init /\ [][Next]_vars

-----------------------------------------------------------------------------
(* validate_record called directly, call after call on one seen_ids set *)

IdFields == { <<>>, <<" ">>, <<"1">>, <<"1", " ">>, <<"2">>, <<"a">> }
NameFields == { <<>>, <<" ">>, <<"a">> }
ValueFields ==
    { <<>>, <<" ">>, <<"1">>, <<"-", "1">>, <<"-", "0">>, <<"n", "a", "n">>,
      <<"-", "i", "n", "f">>, <<"a">>, <<"1", ".", "5">> }

\* Records with three comma-separated fields, tab-separated records, and
\* records with 1, 2 and 4 fields.
Records ==
    { i \o <<",">> \o n \o <<",">> \o v \o <<"\n">> :
        i \in IdFields, n \in NameFields, v \in ValueFields }
    \cup { <<"\t", "a", "\t", "1", "\n">>,
           <<"1", "\t", "a", "\t", "1", "\n">>,
           <<"1", "\t", "a", "\t", "\n">>,
           <<"a", "\t", "\t", "-", "1">> }
    \cup { <<>>, <<"\n">>, <<"1", ",", "a">>, <<"\t", "a">>,
           <<"1", ",", "a", ",", "1", ",", "1">>,
           <<"2", "\t", "a", "\t", "1", "\t", "\t", "a">> }

ValidateDelimiters == { <<",">>, <<"\t">>, <<";">>, <<>> }

ValidateInit ==
    /\ pc = "idle"
    /\ delimiter \in ValidateDelimiters
    /\ line = <<>>
    /\ total_records = 0
    /\ valid_records = <<>>
    /\ invalid_records = <<>>
    /\ error_counts = [e \in {} |-> 0]
    /\ seen_ids = {}
    /\ is_valid = FALSE
    /\ errors = <<>>
    /\ exit_status = -1
    /\ report = NoReport

\* One call validate_record(record, delimiter, seen_ids).
ValidateCall ==
    /\ pc \in {"idle", "returned"}
    /\ \E record \in Records :
          /\ line' = record
          /\ IF SplitRaises(delimiter)
             THEN /\ pc' = "raised"
                  /\ UNCHANGED <<seen_ids, is_valid, errors>>
             ELSE LET r == ValidateRecord(record, delimiter, seen_ids)
                  IN  /\ pc' = "returned"
                      /\ is_valid' = r.is_valid
                      /\ errors' = r.errors
                      /\ seen_ids' = r.seen_ids
    /\ UNCHANGED <<delimiter, total_records, valid_records, invalid_records,
                   error_counts, exit_status, report>>

ValidateNext == ValidateCall

SpecValidate == ValidateInit /\ [][ValidateNext]_vars

-----------------------------------------------------------------------------
(* Properties *)

DuplicateIdError == "ID: " \o DuplicateIdText
EmptyIdError == "ID: " \o EmptyIdText
BadIdError == "ID: " \o BadIdText
IdErrorSet == {EmptyIdError, DuplicateIdError, BadIdError}
NameErrorSet == {"Name: " \o EmptyNameText}
ValueErrorSet == {"Value: " \o e : e \in {EmptyValueText, NegativeValueText, BadValueText}}

\* v >= 0 on floats: false for nan, true for -0.0.
FloatGeZero(v) == v.kind # "nan" /\ ~FloatLtZero(v)

\* The parts validate_record works on for the current line.
CurrentParts == Split(Strip(line), delimiter)

\* C1: while the scan runs and once the report is written, the lines read so
\* far are split between valid_records and invalid_records: the two lengths add
\* up to total_records, the rejected line numbers are distinct lines read, and
\* the counts of the report add up likewise.
C1_OneOutcomePerLine ==
    pc \in {"scan", "done"} =>
        /\ Len(valid_records) + Len(invalid_records) = total_records
        /\ \A i \in 1..Len(invalid_records) :
              /\ invalid_records[i].line_num \in 1..total_records
              /\ \A j \in 1..Len(invalid_records) :
                    invalid_records[i].line_num = invalid_records[j].line_num => i = j
        /\ (report # NoReport => report.valid + report.invalid = report.total)

C1_Witness ==
    /\ pc = "done"
    /\ report # NoReport
    /\ report.total = 3
    /\ report.valid >= 1
    /\ report.invalid >= 1

\* C2: seen_ids is always the set of ids of valid_records, and no step removes
\* an element from it.
C2_SeenIdsAreAcceptedIds ==
    /\ [](seen_ids = IdsOf(valid_records))
    /\ [][seen_ids \subseteq seen_ids']_vars

C2_Witness ==
    /\ Cardinality(seen_ids) = 2
    /\ Len(invalid_records) >= 1
    /\ Len(valid_records) = 2

\* C3: a call of validate_record that returns False leaves seen_ids as it was,
\* and one that returns True leaves it with exactly the parsed id of the line
\* added.
C3_SeenIdsChangedOnlyOnSuccess ==
    [][pc' = "returned" =>
          LET parts == Split(Strip(line'), delimiter')
          IN  IF is_valid'
              THEN /\ Len(parts) = 3
                   /\ IsInt(parts[1])
                   /\ seen_ids' = seen_ids \cup {ParseInt(parts[1])}
              ELSE seen_ids' = seen_ids]_vars

\* A rejected 3-field record whose id parses and is new, after an accepted one.
C3_Witness ==
    /\ pc = "returned"
    /\ ~is_valid
    /\ Len(CurrentParts) = 3
    /\ IsInt(CurrentParts[1])
    /\ ParseInt(CurrentParts[1]) \notin seen_ids
    /\ seen_ids # {}

\* C4: for a line that does not split into 3 fields, validate_record returns
\* False and exactly one error, the field-count message with the number of
\* fields (one more than the delimiters in the stripped line), and no
\* field-labelled error.
C4_StructuralErrorOnly ==
    LET stripped == Strip(line)
        n == Cardinality({i \in 1..Len(stripped) : <<stripped[i]>> = delimiter}) + 1
    IN  (pc = "returned" /\ n # 3) =>
            /\ ~is_valid
            /\ errors = <<FieldCountError(n)>>
            /\ errors[1] \notin IdErrorSet \cup NameErrorSet \cup ValueErrorSet

C4_Witness ==
    /\ pc = "returned"
    /\ Len(CurrentParts) = 4
    /\ errors = <<"Expected 3 fields, got 4">>

\* C5: a 3-field line whose id parses to the id of a record accepted earlier is
\* rejected, with the duplicate-identifier error in its error list.
C5_LaterDuplicateRejected ==
    [][(pc = "scan" /\ pc' = "scan" /\ total_records' = total_records + 1) =>
          LET parts == Split(Strip(line'), delimiter)
          IN  (/\ Len(parts) = 3
               /\ IsInt(parts[1])
               /\ ParseInt(parts[1]) \in IdsOf(valid_records)) =>
                  /\ valid_records' = valid_records
                  /\ Len(invalid_records') = Len(invalid_records) + 1
                  /\ LET rej == invalid_records'[Len(invalid_records')]
                     IN  /\ rej.line_num = total_records'
                         /\ \E k \in 1..Len(rej.errors) :
                               rej.errors[k] = DuplicateIdError]_vars

\* Line 1 accepted, another line in between, line 3 rejected as a duplicate
\* together with another error.
C5_Witness ==
    /\ Len(valid_records) >= 1
    /\ \E i \in 1..Len(invalid_records) :
          /\ invalid_records[i].line_num = 3
          /\ Len(invalid_records[i].errors) = 2
          /\ invalid_records[i].errors[1] = DuplicateIdError

\* C6: for a line whose fields (the line without its trailing whitespace, split
\* by the delimiter) are 3 with a blank first field, the errors contain the
\* empty-identifier error and neither the duplicate nor the format error.
C6_BlankIdReported ==
    LET fields == Split(RStrip(line), delimiter)
    IN  (pc = "returned" /\ Len(fields) = 3 /\ Strip(fields[1]) = <<>>) =>
            /\ \E k \in 1..Len(errors) : errors[k] = EmptyIdError
            /\ \A k \in 1..Len(errors) : errors[k] \notin {DuplicateIdError, BadIdError}

\* C7: for a 3-field line the errors are, in the order id, name, value, one
\* labelled error for each field that breaks a rule and none for the others.
C7_AllFieldsChecked ==
    [][(pc' = "returned" /\ Len(Split(Strip(line'), delimiter')) = 3) =>
          LET parts == Split(Strip(line'), delimiter')
              idBad == \/ Strip(parts[1]) = <<>>
                       \/ ~IsInt(parts[1])
                       \/ ParseInt(parts[1]) \in seen_ids
              nameBad == Strip(parts[2]) = <<>>
              valueBad == \/ Strip(parts[3]) = <<>>
                          \/ ~IsFloat(parts[3])
                          \/ FloatLtZero(ParseFloat(parts[3]))
              Rank(e) == IF e \in IdErrorSet THEN 1
                         ELSE IF e \in NameErrorSet THEN 2
                         ELSE IF e \in ValueErrorSet THEN 3 ELSE 0
              Count(r) == Cardinality({k \in 1..Len(errors') : Rank(errors'[k]) = r})
          IN  /\ Count(0) = 0
              /\ Count(1) = (IF idBad THEN 1 ELSE 0)
              /\ Count(2) = (IF nameBad THEN 1 ELSE 0)
              /\ Count(3) = (IF valueBad THEN 1 ELSE 0)
              /\ \A j, k \in 1..Len(errors') :
                    j < k => Rank(errors'[j]) < Rank(errors'[k])
              /\ is_valid' = (errors' = <<>>)]_vars

C7_Witness ==
    /\ pc = "returned"
    /\ Len(CurrentParts) = 3
    /\ Len(errors) = 3
    /\ errors[1] = DuplicateIdError

\* C8: every record of valid_records has an integer id, a name that is not
\* blank and a value v with v >= 0.
C8_AcceptedRecordsWellFormed ==
    \A i \in 1..Len(valid_records) :
        /\ valid_records[i].id \in Int
        /\ Strip(valid_records[i].name) # <<>>
        /\ FloatGeZero(valid_records[i].value)

\* C9: the process exits with status 1 only when the input file could not be
\* opened, that is before any line was read.
C9_OnlyOpenFailureExits ==
    exit_status = 1 => (total_records = 0 /\ line = <<>>)

\* C10: the ids of valid_records are pairwise distinct, and the report's
\* unique-identifier count equals its valid-record count.
C10_AcceptedIdsDistinct ==
    /\ \A i, j \in 1..Len(valid_records) :
          valid_records[i].id = valid_records[j].id => i = j
    /\ (report # NoReport => report.unique_ids = report.valid)

C10_Witness ==
    /\ pc = "done"
    /\ report # NoReport
    /\ report.valid = 2
    /\ \E i \in 1..Len(invalid_records) :
          \E k \in 1..Len(invalid_records[i].errors) :
              invalid_records[i].errors[k] = DuplicateIdError

====
